---- MODULE Spec2Model ----
(***************************************************************************)
(* The fraud-monitor console (frontend/src/App.jsx): the scoring           *)
(* round-trip of handlePredict, the threshold classifier it applies, the   *)
(* transaction ledger it prepends to, the settings surface and the         *)
(* notifications it emits.                                                 *)
(*                                                                         *)
(* Numbers.  A probability is held in thousandths (0.7 is 700, 0.3 is      *)
(* 300), so that values strictly between two slider stops exist.  The      *)
(* slider yields whole percents v and the code stores v / 100, which is    *)
(* v * 10 thousandths.  riskScore (prob * 100, a percentage) is held in    *)
(* tenths of a percent.  A missing JSON field is the JavaScript value      *)
(* undefined; arithmetic on it gives NaN and every comparison with it is   *)
(* false.                                                                  *)
(***************************************************************************)
EXTENDS Integers, Sequences, FiniteSets, TLC

VARIABLES
    loading,           \* App state: the busy flag
    predictionResult,  \* App state: the latest processed result, or null
    riskScore,         \* App state: the gauge score (tenths of a percent)
    transactions,      \* App state: the ledger, newest first
    activeView,        \* App state: the view shown
    systemSettings,    \* App state: the configuration
    inflight,          \* handlePredict invocations suspended at the await
    notifications,     \* toasts emitted by the current round-trip, in order
    charts,            \* Charts: the memoised chart data, null when unmounted
    created,           \* history: the records built so far, oldest first
    trip,              \* history: the latest round-trip (request, reply)
    decidedUnder,      \* history: the threshold predictionResult was decided
                       \* under, null before the first result
    login              \* admin panel: the Login page, the admin_token in
                       \* localStorage and the latest login call

vars ==
    <<loading, predictionResult, riskScore, transactions, activeView,
      systemSettings, inflight, notifications, charts, created, trip,
      decidedUnder, login>>

----------------------------------------------------------------------------
\* Values

\* JavaScript values that may be a number or not: a number n is [num |-> n].
Num(n) == [num |-> n]

Undefined == [undefined |-> TRUE]

NaN == [nan |-> TRUE]

NULL == [null |-> TRUE]

IsNum(x) == DOMAIN x = {"num"}

Views ==
    {"Dashboard", "Transactions", "Risk Monitor", "Alerts", "Settings"}

Decisions == {"APPROVE", "OTP_VERIFICATION", "BLOCK"}

\* The fixed block boundary 0.7, in thousandths.
BlockThreshold == 700

\* The initial threshold 0.3, in thousandths.
DefaultThreshold == 300

\* The range of the threshold slider, in percent.
SliderMin == 10

SliderMax == 90

\* The largest ledger the model builds.
MaxLedger == 2

\* e.target.value / 100 for a slider value in percent, in thousandths.
SliderToThresholdUndivided(value) == value * 1000

SliderToThreshold(value) == value * 10

----------------------------------------------------------------------------
\* Input alphabets of the session specification

\* Slider stops the operator moves to.
SliderStops == {30, 90}

\* Form values: the inputs are type=number without min, so a negative amount
\* passes the browser's checks; the select offers the types 1..5.
Sources == {1001}

Targets == {2005}

Weights == {-5, 250}

TransTypes == {1}

\* risk_score values of a reply: inside [0,1], missing, and above 1.  The
\* probability equal to the threshold is covered by ClassifySpec.
RiskScores == {Num(450), Num(704), Undefined, Num(1500)}

ModelLabels == {"model"}

\* TXN numbers Math.random yields, and wall-clock readings <<h, m, s>>.
IdNumbers == {100000}

Times == {<<9, 41, 7>>}

FormDatas ==
    [Source : Sources, Target : Targets, Weight : Weights, typeTrans : TransTypes]

\* Response bodies that are objects; a body may also be null.
Replies ==
    [risk_score : RiskScores, decision : Decisions, model : ModelLabels]

----------------------------------------------------------------------------
\* Pure helpers of handlePredict

\* JavaScript a > b: false when a is undefined or NaN.
\* The right-hand sides in handlePredict are always numbers.
Gt(a, b) == IsNum(a) /\ a.num > b

ClassifyInclusive(prob, threshold) ==
    IF IsNum(prob) /\ prob.num >= BlockThreshold THEN "BLOCK"
    ELSE IF IsNum(prob) /\ prob.num >= threshold THEN "OTP_VERIFICATION"
    ELSE "APPROVE"

ClassifyOtpFirst(prob, threshold) ==
    IF Gt(prob, threshold) THEN "OTP_VERIFICATION"
    ELSE IF Gt(prob, BlockThreshold) THEN "BLOCK"
    ELSE "APPROVE"

\* The override of the decision by the local thresholds.
Classify(prob, threshold) ==
    IF Gt(prob, BlockThreshold) THEN "BLOCK"
    ELSE IF Gt(prob, threshold) THEN "OTP_VERIFICATION"
    ELSE "APPROVE"

\* Math.round(prob * 100): the nearest whole percent, halves upwards.
RiskPercent(prob) ==
    IF IsNum(prob) THEN Num((prob.num + 5) \div 10) ELSE NaN

\* prob * 100, in tenths of a percent.
Times100(prob) ==
    IF IsNum(prob) THEN Num(prob.num) ELSE NaN

NewTransaction(formData, prob, finalDecision, idNumber, time) ==
    [id |-> <<"TXN", idNumber>>,
     time |-> time,
     source |-> formData.Source,
     target |-> formData.Target,
     amount |-> formData.Weight,
     risk |-> RiskPercent(prob),
     decision |-> finalDecision]

PrependOldestFirst(record, prev) == Append(prev, record)

PrependCapped(record, prev) == SubSeq(<<record>> \o prev, 1, 1)

\* [newTransaction, ...prev]
Prepend(record, prev) == <<record>> \o prev

SeverityToastsBoth(result) ==
    IF result.decision = "BLOCK" THEN <<"blocked", "verificationRequired">>
    ELSE IF result.decision = "OTP_VERIFICATION" THEN <<"verificationRequired">>
    ELSE <<>>

\* The toasts after the success toast; they test result.decision, the
\* decision the reply carried.
SeverityToasts(result) ==
    IF result.decision = "BLOCK" THEN <<"blocked">>
    ELSE IF result.decision = "OTP_VERIFICATION" THEN <<"verificationRequired">>
    ELSE <<>>

ThresholdAtReply(call) == systemSettings.threshold

\* systemSettings.threshold as handlePredict reads it: handlePredict is a
\* closure of the render in which the form was submitted, so the object it
\* reads is the one of that render.
ThresholdRead(call) == call.threshold

FinalDecisionKeepsBlock(result, call) ==
    IF result.decision = "BLOCK" THEN "BLOCK"
    ELSE Classify(result.risk_score, ThresholdRead(call))

\* let finalDecision = result.decision, overwritten in each branch of the
\* if / else if / else on the probability.
FinalDecision(result, call) ==
    Classify(result.risk_score, ThresholdRead(call))

SubmitEnabledAlways == activeView = "Dashboard"

\* The form is mounted on the Dashboard view only and its submit button is
\* disabled while loading.
SubmitEnabled == activeView = "Dashboard" /\ ~loading

----------------------------------------------------------------------------
\* RiskGauge: the status label under the gauge

\* The bounds of the labels, as scores in tenths of a percent.
GaugeSafeBelow == 300

GaugeOtpBelow == 700

\* JavaScript a < b: false when a is NaN.
Lt(a, b) == IsNum(a) /\ a.num < b

GetStatusText(s) ==
    IF Lt(s, GaugeSafeBelow) THEN "SAFE"
    ELSE IF Lt(s, GaugeOtpBelow) THEN "OTP REQUIRED"
    ELSE "BLOCK"

----------------------------------------------------------------------------
\* Charts: the chart data computed in useMemo

\* The views that mount Charts.
ChartViews == {"Dashboard", "Risk Monitor"}

\* The windows of the trend and of the volume chart.
TrendWindow == 10

VolumeWindow == 7

Reverse(s) == [k \in 1..Len(s) |-> s[Len(s) - k + 1]]

\* s.slice(-n): the last n elements, all of them when there are fewer.
SliceLast(s, n) ==
    IF Len(s) <= n THEN s ELSE SubSeq(s, Len(s) - n + 1, Len(s))

LineNotReversed(txs) == [reversed |-> txs, source |-> txs]

BarReversedInPlace(txs) == [reversed |-> Reverse(txs), source |-> Reverse(txs)]

\* [...transactions].reverse() of the trend: the copy is reversed and the
\* array passed in is left as it was.
LineReversed(txs) == [reversed |-> Reverse(txs), source |-> txs]

\* [...transactions].reverse() of the volume chart.
BarReversed(txs) == [reversed |-> Reverse(txs), source |-> txs]

\* t.time.split(':')[0] + ':' + t.time.split(':')[1]
TimeLabel(time) == <<time[1], time[2]>>

\* t.id.split('-')[1]
ShortId(id) == id[2]

LineDataUnwindowed(reversed) ==
    [k \in 1..Len(reversed) |->
        [name |-> TimeLabel(reversed[k].time), risk |-> reversed[k].risk]]

LineData(reversed) ==
    LET window == SliceLast(reversed, TrendWindow)
    IN  [k \in 1..Len(window) |->
            [name |-> TimeLabel(window[k].time), risk |-> window[k].risk]]

BarDataOldest(reversed) ==
    LET window == SubSeq(reversed, 1,
                         IF Len(reversed) <= VolumeWindow THEN Len(reversed)
                         ELSE VolumeWindow)
    IN  [k \in 1..Len(window) |->
            [name |-> ShortId(window[k].id), vol |-> window[k].amount]]

BarData(reversed) ==
    LET window == SliceLast(reversed, VolumeWindow)
    IN  [k \in 1..Len(window) |->
            [name |-> ShortId(window[k].id), vol |-> window[k].amount]]

CountDecisionPresent(txs, decision) ==
    IF \E k \in 1..Len(txs) : txs[k].decision = decision THEN 1 ELSE 0

\* decisions[decision] || 0 after the reduce over the ledger.
CountDecision(txs, decision) ==
    Cardinality({k \in 1..Len(txs) : txs[k].decision = decision})

PieDataUnfiltered(txs) ==
    <<[name |-> "Approve", value |-> CountDecision(txs, "APPROVE")],
      [name |-> "Block", value |-> CountDecision(txs, "BLOCK")],
      [name |-> "OTP", value |-> CountDecision(txs, "OTP_VERIFICATION")]>>

\* The three entries in their fixed order, then filter(d => d.value > 0).
PieData(txs) ==
    SelectSeq(<<[name |-> "Approve", value |-> CountDecision(txs, "APPROVE")],
                [name |-> "Block", value |-> CountDecision(txs, "BLOCK")],
                [name |-> "OTP",
                 value |-> CountDecision(txs, "OTP_VERIFICATION")]>>,
              LAMBDA d : d.value > 0)

\* The transactions array is replaced only by setTransactions, once per
\* append, so its length tells the array objects of a session apart.
ArrayId(txs) == Len(txs)

\* The computation of useMemo: charts is what is memoised, the data with the
\* dependency it was computed for, and transactions is the array as the
\* computation leaves it.
ComputeCharts(txs) ==
    IF Len(txs) = 0
    THEN [charts |->
              [deps |-> ArrayId(txs), lineData |-> <<>>, barData |-> <<>>,
               pieData |-> <<>>],
          transactions |-> txs]
    ELSE LET line == LineReversed(txs)
             bar == BarReversed(line.source)
         IN  [charts |->
                  [deps |-> ArrayId(txs),
                   lineData |-> LineData(line.reversed),
                   barData |-> BarData(bar.reversed),
                   pieData |-> PieData(bar.source)],
              transactions |-> bar.source]

MemoHitAlways(memo, txs) == memo # NULL

\* useMemo(..., [transactions]): the memoised value is kept while the
\* dependency is the array it was computed for.
MemoHit(memo, txs) == memo # NULL /\ memo.deps = ArrayId(txs)

\* The render after a state change: Charts is mounted on two views only; memo
\* is null for a Charts that is being mounted.
Render(view, txs, memo) ==
    IF view \notin ChartViews
    THEN [charts |-> NULL, transactions |-> txs]
    ELSE IF MemoHit(memo, txs)
    THEN [charts |-> memo, transactions |-> txs]
    ELSE ComputeCharts(txs)

RemoveAt(s, i) ==
    [j \in 1..(Len(s) - 1) |-> IF j < i THEN s[j] ELSE s[j + 1]]

----------------------------------------------------------------------------
\* Admin panel: the Login page

Str(s) == [str |-> s]

Emails == {"admin@bank.test", "ops@bank.test"}

Passwords == {"secret", "guess", "letmein"}

\* response.data of a login answered 2xx: null, an object without
\* access_token, or an object with one.
LoginBodies ==
    {NULL, [access_token |-> Undefined], [access_token |-> Str("tok-1")],
     [access_token |-> Str("tok-2")]}

\* error.response?.data?.detail of a rejected login.
LoginDetails ==
    {Undefined, Str("Account disabled"), Str("Incorrect email or password")}

\* localStorage.setItem stores the string form of its value.
StoredString(value) == IF value = Undefined THEN Str("undefined") ELSE value

\* a || b on a value that is undefined or a non-empty string.
OrElse(a, b) == IF a = Undefined THEN b ELSE a

\* The Login page as mounted, over the admin_token that localStorage holds.
LoginMounted(token) ==
    [mounted |-> TRUE,
     formData |-> [email |-> "", password |-> ""],
     loading |-> FALSE,
     call |-> "none",
     toasts |-> <<>>,
     adminToken |-> token,
     outcome |-> "none"]

\* The submit button is disabled while loading, and the browser refuses to
\* submit while a required field is empty.
LoginSubmitEnabled ==
    /\ login.mounted
    /\ ~login.loading
    /\ login.formData.email # ""
    /\ login.formData.password # ""

AppUnchanged ==
    UNCHANGED <<loading, predictionResult, riskScore, transactions, activeView,
                systemSettings, inflight, notifications, charts, created, trip,
                decidedUnder>>

\* The onChange of the two inputs.
SetLoginForm(field, value) ==
    /\ login.mounted
    /\ login' = [login EXCEPT !.formData[field] = value]
    /\ AppUnchanged

\* Login.handleSubmit up to its await.
LoginHandleSubmit ==
    /\ LoginSubmitEnabled
    /\ login' =
           [login EXCEPT !.loading = TRUE, !.call = "pending", !.toasts = <<>>,
                         !.outcome = "pending"]
    /\ AppUnchanged

\* The login is answered 2xx with response.data = body: the rest of the try
\* block, then the finally block.  Reading access_token of a null body
\* throws, and the catch block runs with an error that has no response.
LoginSucceeds(body) ==
    /\ login.call = "pending"
    /\ login' =
           IF body = NULL
           THEN [login EXCEPT
                    !.loading = FALSE, !.call = "none",
                    !.toasts = Append(@, <<"error",
                                           Str("Invalid admin credentials")>>),
                    !.outcome = "resolved"]
           ELSE [login EXCEPT
                    !.loading = FALSE, !.call = "none",
                    !.adminToken = StoredString(body.access_token),
                    !.toasts = Append(@, <<"success",
                                           Str("Admin authenticated successfully")>>),
                    !.mounted = FALSE,
                    !.outcome = "resolved"]
    /\ AppUnchanged

LoginFailsClearsToken(detail) ==
    /\ login.call = "pending"
    /\ login' =
           [login EXCEPT
               !.loading = FALSE, !.call = "none", !.adminToken = NULL,
               !.toasts = Append(@, <<"error",
                                      OrElse(detail,
                                             Str("Invalid admin credentials"))>>),
               !.outcome = "rejected"]
    /\ AppUnchanged

\* The login is rejected (no connection, or a status outside 2xx): the catch
\* block, then the finally block.
LoginFails(detail) ==
    /\ login.call = "pending"
    /\ login' =
           [login EXCEPT
               !.loading = FALSE, !.call = "none",
               !.toasts = Append(@, <<"error",
                                      OrElse(detail,
                                             Str("Invalid admin credentials"))>>),
               !.outcome = "rejected"]
    /\ AppUnchanged

\* The login never answers: the axios instance is created without a timeout.
LoginCallLost ==
    /\ login.call = "pending"
    /\ login' = [login EXCEPT !.call = "lost"]
    /\ AppUnchanged

----------------------------------------------------------------------------
\* Initial state: the useState initialisers

Init ==
    /\ loading = FALSE
    /\ predictionResult = NULL
    /\ riskScore = Num(0)
    /\ transactions = <<>>
    /\ activeView = "Dashboard"
    /\ systemSettings =
           [threshold |-> DefaultThreshold, autoBlock |-> TRUE,
            notificationSound |-> TRUE, strictMode |-> FALSE]
    /\ inflight = <<>>
    /\ notifications = <<>>
    /\ charts = Render("Dashboard", <<>>, NULL).charts
    /\ created = <<>>
    /\ trip = [kind |-> "none"]
    /\ decidedUnder = NULL
    /\ login = LoginMounted(NULL)

----------------------------------------------------------------------------
\* Actions

\* TransactionForm.handleSubmit, then handlePredict up to its await.
HandleSubmit(formData) ==
    /\ SubmitEnabled
    /\ Len(transactions) + Len(inflight) < MaxLedger
    /\ loading' = TRUE
    /\ notifications' = <<"progress">>
    /\ inflight' =
           Append(inflight,
                  [formData |-> formData,
                   threshold |-> systemSettings.threshold,
                   net |-> "pending"])
    /\ trip' =
           [kind |-> "pending", formData |-> formData,
            thresholdAtSubmit |-> systemSettings.threshold,
            before |-> transactions]
    /\ UNCHANGED <<predictionResult, riskScore, transactions, activeView,
                   systemSettings, charts, created, decidedUnder, login>>

PredictFailsResetsSettings(i) ==
    /\ i \in 1..Len(inflight)
    /\ inflight[i].net = "pending"
    /\ loading' = FALSE
    /\ notifications' = Append(notifications, "failure")
    /\ inflight' = RemoveAt(inflight, i)
    /\ trip' = [trip EXCEPT !.kind = "rejected"]
    /\ systemSettings' =
           [systemSettings EXCEPT !.threshold = DefaultThreshold]
    /\ UNCHANGED <<predictionResult, riskScore, transactions, activeView,
                   charts, created, decidedUnder, login>>

PredictFailsClearsResult(i) ==
    /\ i \in 1..Len(inflight)
    /\ inflight[i].net = "pending"
    /\ loading' = FALSE
    /\ notifications' = Append(notifications, "failure")
    /\ inflight' = RemoveAt(inflight, i)
    /\ trip' = [trip EXCEPT !.kind = "rejected"]
    /\ predictionResult' = NULL
    /\ riskScore' = Num(0)
    /\ UNCHANGED <<transactions, activeView, systemSettings, charts, created,
                   decidedUnder, login>>

PredictFailsKeepsBusy(i) ==
    /\ i \in 1..Len(inflight)
    /\ inflight[i].net = "pending"
    /\ notifications' = Append(notifications, "failure")
    /\ inflight' = RemoveAt(inflight, i)
    /\ trip' = [trip EXCEPT !.kind = "rejected"]
    /\ UNCHANGED <<loading, predictionResult, riskScore, transactions,
                   activeView, systemSettings, charts, created, decidedUnder,
                   login>>

PredictFailsAppends(i) ==
    /\ i \in 1..Len(inflight)
    /\ inflight[i].net = "pending"
    /\ loading' = FALSE
    /\ notifications' = Append(notifications, "failure")
    /\ inflight' = RemoveAt(inflight, i)
    /\ trip' = [trip EXCEPT !.kind = "rejected"]
    /\ transactions' =
           Prepend(NewTransaction(inflight[i].formData, Undefined, "APPROVE",
                                  100000, <<0, 0, 0>>),
                   transactions)
    /\ UNCHANGED <<predictionResult, riskScore, activeView, systemSettings,
                   charts, created, decidedUnder, login>>

\* The post is rejected (no connection, or a status outside 2xx): the catch
\* block, then the finally block.
PredictFails(i) ==
    /\ i \in 1..Len(inflight)
    /\ inflight[i].net = "pending"
    /\ loading' = FALSE
    /\ notifications' = Append(notifications, "failure")
    /\ inflight' = RemoveAt(inflight, i)
    /\ trip' = [trip EXCEPT !.kind = "rejected"]
    /\ UNCHANGED <<predictionResult, riskScore, transactions, activeView,
                   systemSettings, charts, created, decidedUnder, login>>

\* The post resolves with response.data = result: the rest of the try block,
\* then the finally block.  On a null body result.decision throws, and the
\* catch block runs instead.
PredictSucceeds(i, result, idNumber, time) ==
    /\ i \in 1..Len(inflight)
    /\ inflight[i].net = "pending"
    /\ IF result = NULL
       THEN /\ notifications' = Append(notifications, "failure")
            /\ UNCHANGED <<predictionResult, riskScore, transactions, charts,
                           created, decidedUnder>>
       ELSE LET call == inflight[i]
                prob == result.risk_score
                finalDecision == FinalDecision(result, call)
                newTransaction ==
                    NewTransaction(call.formData, prob, finalDecision,
                                   idNumber, time)
            IN  /\ predictionResult' =
                       [result EXCEPT !.decision = finalDecision]
                /\ riskScore' = Times100(prob)
                /\ \E rendered \in
                         {Render(activeView,
                                 Prepend(newTransaction, transactions),
                                 charts)} :
                       /\ transactions' = rendered.transactions
                       /\ charts' = rendered.charts
                /\ created' = Append(created, newTransaction)
                /\ decidedUnder' = ThresholdRead(call)
                /\ notifications' =
                       Append(notifications, "success")
                           \o SeverityToasts(result)
    /\ trip' =
           [kind |-> "resolved", formData |-> trip.formData,
            thresholdAtSubmit |-> trip.thresholdAtSubmit,
            before |-> trip.before,
            thresholdAtReply |-> systemSettings.threshold,
            data |-> result]
    /\ loading' = FALSE
    /\ inflight' = RemoveAt(inflight, i)
    /\ UNCHANGED <<activeView, systemSettings, login>>

CallLostClearsBusy(i) ==
    /\ i \in 1..Len(inflight)
    /\ inflight[i].net = "pending"
    /\ inflight' = [inflight EXCEPT ![i].net = "lost"]
    /\ loading' = FALSE
    /\ UNCHANGED <<predictionResult, riskScore, transactions, activeView,
                   systemSettings, notifications, charts, created, trip,
                   decidedUnder, login>>

\* The scoring call never answers: axios.post is given no timeout, so the
\* promise stays pending.
CallLost(i) ==
    /\ i \in 1..Len(inflight)
    /\ inflight[i].net = "pending"
    /\ inflight' = [inflight EXCEPT ![i].net = "lost"]
    /\ UNCHANGED <<loading, predictionResult, riskScore, transactions,
                   activeView, systemSettings, notifications, charts, created,
                   trip, decidedUnder, login>>

\* Sidebar onViewChange = setActiveView.  The content is keyed by the view,
\* so the old view is unmounted and the new one mounted: a Charts of the new
\* view starts without a memoised value.
SetActiveView(view) ==
    /\ view \in Views
    /\ view # activeView
    /\ activeView' = view
    /\ \E rendered \in {Render(view, transactions, NULL)} :
           /\ transactions' = rendered.transactions
           /\ charts' = rendered.charts
    /\ UNCHANGED <<loading, predictionResult, riskScore, systemSettings,
                   inflight, notifications, created, trip, decidedUnder,
                   login>>

\* The threshold slider of the Settings view.
SetThreshold(value) ==
    /\ activeView = "Settings"
    /\ value \in SliderMin..SliderMax
    /\ systemSettings' =
           [systemSettings EXCEPT !.threshold = SliderToThreshold(value)]
    /\ UNCHANGED <<loading, predictionResult, riskScore, transactions,
                   activeView, inflight, notifications, charts, created, trip,
                   decidedUnder, login>>

ToggleAutoBlock ==
    /\ activeView = "Settings"
    /\ systemSettings' =
           [systemSettings EXCEPT !.autoBlock = ~systemSettings.autoBlock]
    /\ UNCHANGED <<loading, predictionResult, riskScore, transactions,
                   activeView, inflight, notifications, charts, created, trip,
                   decidedUnder, login>>

ToggleStrictMode ==
    /\ activeView = "Settings"
    /\ systemSettings' =
           [systemSettings EXCEPT !.strictMode = ~systemSettings.strictMode]
    /\ UNCHANGED <<loading, predictionResult, riskScore, transactions,
                   activeView, inflight, notifications, charts, created, trip,
                   decidedUnder, login>>

Submits == \E formData \in FormDatas : HandleSubmit(formData)

Resolves ==
    \E i \in 1..Len(inflight), result \in Replies \cup {NULL},
       idNumber \in IdNumbers, time \in Times :
        PredictSucceeds(i, result, idNumber, time)

Rejects == \E i \in 1..Len(inflight) : PredictFails(i)

Loses == \E i \in 1..Len(inflight) : CallLost(i)

Navigates == \E view \in Views : SetActiveView(view)

MovesSlider == \E value \in SliderStops : SetThreshold(value)

Next ==
    \/ Submits
    \/ Resolves
    \/ Rejects
    \/ Loses
    \/ Navigates
    \/ MovesSlider
    \/ ToggleAutoBlock
    \/ ToggleStrictMode

Spec == Init /\ [][Next]_vars

----------------------------------------------------------------------------
\* The classifier alone: one round-trip in flight under each threshold the
\* slider can set, answered by each probability of [0,1] in thousandths.

ClassifyInit ==
    /\ loading = TRUE
    /\ predictionResult = NULL
    /\ riskScore = Num(0)
    /\ transactions = <<>>
    /\ activeView = "Dashboard"
    /\ \E value \in SliderMin..SliderMax :
        /\ systemSettings =
               [threshold |-> SliderToThreshold(value), autoBlock |-> TRUE,
                notificationSound |-> TRUE, strictMode |-> FALSE]
        /\ \E formData \in {f \in FormDatas : f.Weight >= 0} :
            /\ inflight =
                   <<[formData |-> formData,
                      threshold |-> SliderToThreshold(value),
                      net |-> "pending"]>>
            /\ trip =
                   [kind |-> "pending", formData |-> formData,
                    thresholdAtSubmit |-> SliderToThreshold(value),
                    before |-> <<>>]
    /\ notifications = <<"progress">>
    /\ charts = Render("Dashboard", <<>>, NULL).charts
    /\ created = <<>>
    /\ decidedUnder = NULL
    /\ login = LoginMounted(NULL)

ClassifyNext ==
    /\ inflight # <<>>
    /\ \E p \in 0..1000, decision \in Decisions,
          idNumber \in IdNumbers, time \in Times :
           PredictSucceeds(1,
                           [risk_score |-> Num(p), decision |-> decision,
                            model |-> "model"],
                           idNumber, time)

ClassifySpec == ClassifyInit /\ [][ClassifyNext]_vars

----------------------------------------------------------------------------
\* The session under the scheduling the event loop gives: a call that the
\* network answers is settled and its continuation runs.  A lost call is
\* never answered.

\* The control flow of a round-trip does not read the data, so one request
\* and one reply stand for all.
LiveSubmits ==
    \E formData \in {f \in FormDatas : f.Weight >= 0} : HandleSubmit(formData)

LiveResolves ==
    \E i \in 1..Len(inflight), idNumber \in IdNumbers, time \in Times :
        PredictSucceeds(i,
                        [risk_score |-> Num(450), decision |-> "APPROVE",
                         model |-> "model"],
                        idNumber, time)

Settles == LiveResolves \/ Rejects

LiveNext ==
    \/ LiveSubmits
    \/ LiveResolves
    \/ Rejects
    \/ Loses
    \/ Navigates
    \/ MovesSlider
    \/ ToggleAutoBlock
    \/ ToggleStrictMode

LiveSpec == Init /\ [][LiveNext]_vars /\ WF_vars(Settles)

----------------------------------------------------------------------------
\* The toasts alone, under the scheduling of the event loop: the toasts read
\* only the upstream suggestion and whether the body is an object, so one
\* request and one probability stand for all.

ToastResolves ==
    \E i \in 1..Len(inflight), decision \in Decisions, body \in {"object", "null"},
       idNumber \in IdNumbers, time \in Times :
        PredictSucceeds(i,
                        IF body = "null" THEN NULL
                        ELSE [risk_score |-> Num(450), decision |-> decision,
                              model |-> "model"],
                        idNumber, time)

ToastSettles == ToastResolves \/ Rejects

ToastNext ==
    \/ LiveSubmits
    \/ ToastResolves
    \/ Rejects
    \/ Loses
    \/ Navigates
    \/ MovesSlider

ToastSpec == Init /\ [][ToastNext]_vars /\ WF_vars(ToastSettles)

----------------------------------------------------------------------------
\* The slider alone: the positions at and next to the two ends of its range,
\* between round-trips of one request and one reply.

SliderEnds == {SliderMin, SliderMin + 1, SliderMax - 1, SliderMax}

SlidesAnywhere == \E value \in SliderEnds : SetThreshold(value)

SliderNext ==
    \/ LiveSubmits
    \/ LiveResolves
    \/ Rejects
    \/ Navigates
    \/ SlidesAnywhere

SliderSpec == Init /\ [][SliderNext]_vars

----------------------------------------------------------------------------
\* The admin panel alone: the Login page opened over a localStorage that is
\* empty or still holds the token of an earlier session.

LoginInit ==
    /\ loading = FALSE
    /\ predictionResult = NULL
    /\ riskScore = Num(0)
    /\ transactions = <<>>
    /\ activeView = "Dashboard"
    /\ systemSettings =
           [threshold |-> DefaultThreshold, autoBlock |-> TRUE,
            notificationSound |-> TRUE, strictMode |-> FALSE]
    /\ inflight = <<>>
    /\ notifications = <<>>
    /\ charts = Render("Dashboard", <<>>, NULL).charts
    /\ created = <<>>
    /\ trip = [kind |-> "none"]
    /\ decidedUnder = NULL
    /\ \E token \in {NULL, Str("tok-0")} : login = LoginMounted(token)

TypesLogin ==
    \/ \E email \in Emails : SetLoginForm("email", email)
    \/ \E password \in Passwords : SetLoginForm("password", password)

LoginResolves == \E body \in LoginBodies : LoginSucceeds(body)

LoginRejects == \E detail \in LoginDetails : LoginFails(detail)

LoginNext ==
    \/ TypesLogin
    \/ LoginHandleSubmit
    \/ LoginResolves
    \/ LoginRejects
    \/ LoginCallLost

LoginSpec == LoginInit /\ [][LoginNext]_vars

----------------------------------------------------------------------------
\* The record ids alone: Math.floor(Math.random() * 900000) + 100000 draws
\* each id anew from 100000..999999; the two ends and one value between
\* stand for the range.

IdDraws == {100000, 548213, 999999}

IdResolves ==
    \E i \in 1..Len(inflight), idNumber \in IdDraws, time \in Times :
        PredictSucceeds(i,
                        [risk_score |-> Num(450), decision |-> "APPROVE",
                         model |-> "model"],
                        idNumber, time)

IdNext ==
    \/ LiveSubmits
    \/ IdResolves
    \/ Rejects
    \/ Navigates
    \/ MovesSlider

IdSpec == Init /\ [][IdNext]_vars

----------------------------------------------------------------------------
\* The charts alone: the session just after the last of a run of successful
\* round-trips under the default settings, then navigation between the views.
\* A round-trip is given by its request, its reply and the id and the time
\* drawn for its record.

MaxMixed == 5

MaxCharted == 11

Approved ==
    [formData |-> [Source |-> 1001, Target |-> 2005, Weight |-> 250,
                   typeTrans |-> 1],
     result |-> [risk_score |-> Num(120), decision |-> "APPROVE",
                 model |-> "model"],
     idNumber |-> 100000, time |-> <<9, 41, 7>>]

Blocked ==
    [formData |-> [Source |-> 1001, Target |-> 2005, Weight |-> -5,
                   typeTrans |-> 1],
     result |-> [risk_score |-> Num(704), decision |-> "APPROVE",
                 model |-> "model"],
     idNumber |-> 999999, time |-> <<23, 59, 0>>]

Challenged ==
    [formData |-> [Source |-> 1001, Target |-> 2005, Weight |-> 4000,
                   typeTrans |-> 1],
     result |-> [risk_score |-> Num(450), decision |-> "BLOCK",
                 model |-> "model"],
     idNumber |-> 548213, time |-> <<13, 5, 59>>]

SeqsUpTo(S, n) == UNION {[1..m -> S] : m \in 0..n}

\* Runs of round-trips, oldest first: the short ones over all three
\* decisions, the long ones, which overflow both chart windows, over two.
ChartedRuns ==
    SeqsUpTo({Approved, Blocked, Challenged}, MaxMixed)
        \cup SeqsUpTo({Approved, Blocked}, MaxCharted)

ChartedCall(roundTrip) ==
    [formData |-> roundTrip.formData, threshold |-> DefaultThreshold,
     net |-> "pending"]

ChartedRecord(roundTrip) ==
    NewTransaction(roundTrip.formData, roundTrip.result.risk_score,
                   FinalDecision(roundTrip.result, ChartedCall(roundTrip)),
                   roundTrip.idNumber, roundTrip.time)

ChartedInit ==
    \E run \in ChartedRuns :
        LET records == [k \in 1..Len(run) |-> ChartedRecord(run[k])]
            ledger == Reverse(records)
        IN  /\ loading = FALSE
            /\ transactions = ledger
            /\ activeView = "Dashboard"
            /\ systemSettings =
                   [threshold |-> DefaultThreshold, autoBlock |-> TRUE,
                    notificationSound |-> TRUE, strictMode |-> FALSE]
            /\ inflight = <<>>
            /\ charts = Render("Dashboard", ledger, NULL).charts
            /\ created = records
            /\ login = LoginMounted(NULL)
            /\ IF run = <<>>
               THEN /\ predictionResult = NULL
                    /\ riskScore = Num(0)
                    /\ notifications = <<>>
                    /\ trip = [kind |-> "none"]
                    /\ decidedUnder = NULL
               ELSE LET last == run[Len(run)]
                    IN  /\ predictionResult =
                               [last.result EXCEPT
                                   !.decision = ledger[1].decision]
                        /\ riskScore = Times100(last.result.risk_score)
                        /\ notifications =
                               <<"progress", "success">>
                                   \o SeverityToasts(last.result)
                        /\ trip =
                               [kind |-> "resolved",
                                formData |-> last.formData,
                                thresholdAtSubmit |-> DefaultThreshold,
                                before |-> Tail(ledger),
                                thresholdAtReply |-> DefaultThreshold,
                                data |-> last.result]
                        /\ decidedUnder = DefaultThreshold

ChartedNext == Navigates

ChartedSpec == ChartedInit /\ [][ChartedNext]_vars

----------------------------------------------------------------------------
\* Properties

Emitted(kind) ==
    \E k \in 1..Len(notifications) : notifications[k] = kind

\* The three-way mapping as arithmetic on thousandths; false of every
\* decision but APPROVE when p is not a number.
ThreeWay(decision, p, t) ==
    /\ decision = "BLOCK" <=> (IsNum(p) /\ p.num > 700)
    /\ decision = "OTP_VERIFICATION"
           <=> (IsNum(p) /\ t < p.num /\ p.num <= 700)
    /\ decision = "APPROVE"
           <=> ~(IsNum(p) /\ p.num > 700)
               /\ ~(IsNum(p) /\ t < p.num /\ p.num <= 700)

\* C1: for every probability p in [0,1] and every threshold t of the slider,
\* the final decision is BLOCK iff p > 0.7, OTP_VERIFICATION iff
\* t < p <= 0.7, and APPROVE otherwise.
C1_ClassifierThreeWay ==
    predictionResult # NULL =>
        LET p == predictionResult.risk_score.num
            t == systemSettings.threshold
            d == predictionResult.decision
        IN  /\ d \in Decisions
            /\ d = "BLOCK" <=> p > 700
            /\ d = "OTP_VERIFICATION" <=> (t < p /\ p <= 700)
            /\ d = "APPROVE" <=> (p <= 700 /\ p <= t)

\* C1 witness: p = 0.7 exactly under t = 0.3 is classified, and not BLOCK.
C1_Witness ==
    /\ predictionResult # NULL
    /\ predictionResult.risk_score = Num(700)
    /\ systemSettings.threshold = 300
    /\ predictionResult.decision = "OTP_VERIFICATION"

\* C2: after N successful round-trips the ledger has length N and holds the
\* records newest first: its i-th element is the (N - i + 1)-th record
\* built, so its first element is the latest one.
C2_LedgerNewestFirst ==
    /\ Len(transactions) = Len(created)
    /\ \A k \in 1..Len(transactions) :
           transactions[k] = created[Len(created) - k + 1]

\* C2 witness: two different records, the later one first.
C2_Witness ==
    /\ Len(transactions) = 2
    /\ transactions[1] # transactions[2]
    /\ transactions[1] = created[2]

\* C3: once the scoring call of a round-trip has been rejected, the ledger
\* is the ledger of the round-trip's start, the busy flag is clear and the
\* last notification is the failure notification.
C3_FailureLeavesLedger ==
    trip.kind = "rejected" =>
        /\ transactions = trip.before
        /\ ~loading
        /\ Len(notifications) > 0
        /\ notifications[Len(notifications)] = "failure"

\* C3 witness: a rejected round-trip over a ledger that holds a record.
C3_Witness ==
    /\ trip.kind = "rejected"
    /\ Len(transactions) = 1
    /\ ~loading

\* C4 as claimed: every record's decision is the three-way mapping of its
\* own riskPercent / 100 (BLOCK iff above 0.7), with, for the latest record,
\* the threshold in force when it was created.
C4_DecisionFromRiskPercent ==
    /\ \A k \in 1..Len(transactions) :
           transactions[k].decision = "BLOCK"
               <=> (IsNum(transactions[k].risk)
                    /\ transactions[k].risk.num * 10 > 700)
    /\ (trip.kind = "resolved" /\ trip.data # NULL) =>
           ThreeWay(transactions[1].decision,
                    IF IsNum(transactions[1].risk)
                    THEN Num(transactions[1].risk.num * 10)
                    ELSE NaN,
                    trip.thresholdAtReply)

\* C4 amended: every step leaves the ledger as it is or puts one record in
\* front of it, and that record's decision is the three-way mapping of the
\* reply's probability (not of the rounded percentage) under the threshold
\* held when the request was submitted.
C4_DecisionFromProbability ==
    [][\/ transactions' = transactions
       \/ /\ transactions' # <<>>
          /\ Tail(transactions') = transactions
          /\ trip'.kind = "resolved"
          /\ ThreeWay(transactions'[1].decision, trip'.data.risk_score,
                      trip'.thresholdAtSubmit)]_vars

\* C4 witness: a record shown as 70 percent and decided BLOCK (p = 0.704).
C4_Witness ==
    /\ trip.kind = "resolved"
    /\ trip.data # NULL
    /\ trip.data.risk_score = Num(704)
    /\ transactions[1].risk = Num(70)
    /\ transactions[1].decision = "BLOCK"

\* C5 as claimed: when the threshold was changed while the call was in
\* flight, the decision is the mapping under the threshold held when the
\* reply was processed.
C5_ThresholdOfReply ==
    (trip.kind = "resolved" /\ trip.data # NULL
     /\ trip.thresholdAtSubmit # trip.thresholdAtReply) =>
        ThreeWay(transactions[1].decision, trip.data.risk_score,
                 trip.thresholdAtReply)

\* C5 amended: when the threshold was changed while the call was in flight,
\* the decision is the mapping under the threshold held when the request
\* was submitted.
C5_ThresholdOfSubmit ==
    (trip.kind = "resolved" /\ trip.data # NULL
     /\ trip.thresholdAtSubmit # trip.thresholdAtReply) =>
        ThreeWay(transactions[1].decision, trip.data.risk_score,
                 trip.thresholdAtSubmit)

\* C5 witness: submitted under 0.3, answered with 0.45 under 0.9, decided
\* OTP_VERIFICATION.
C5_Witness ==
    /\ trip.kind = "resolved"
    /\ trip.data # NULL
    /\ trip.thresholdAtSubmit = 300
    /\ trip.thresholdAtReply = 900
    /\ trip.data.risk_score = Num(450)
    /\ transactions[1].decision = "OTP_VERIFICATION"

\* C6 as claimed: after a round-trip that appended its record, blocked was
\* emitted iff the recorded decision is BLOCK and verificationRequired iff
\* it is OTP_VERIFICATION.
C6_SeverityFollowsFinal ==
    (trip.kind = "resolved" /\ trip.data # NULL) =>
        /\ Emitted("blocked") <=> transactions[1].decision = "BLOCK"
        /\ Emitted("verificationRequired")
               <=> transactions[1].decision = "OTP_VERIFICATION"

Malformed(data) ==
    \/ data = NULL
    \/ ~IsNum(data.risk_score)
    \/ data.risk_score.num < 0
    \/ data.risk_score.num > 1000

\* C7 as claimed: a reply whose risk_score is missing or outside [0,1] ends
\* in a failure notification and leaves the ledger as it was.
C7_MalformedIsFailure ==
    (trip.kind = "resolved" /\ Malformed(trip.data)) =>
        /\ transactions = trip.before
        /\ Emitted("failure")

ValidRequest(formData) ==
    /\ formData.Weight >= 0
    /\ formData.typeTrans \in 1..5

\* C8 as claimed: a request with a negative amount or a type outside the
\* enumeration ends in a failure notification and leaves the ledger as it
\* was.
C8_InvalidRequestIsFailure ==
    (trip.kind \in {"resolved", "rejected"} /\ ~ValidRequest(trip.formData)) =>
        /\ transactions = trip.before
        /\ Emitted("failure")

SomeCallLost ==
    \E k \in 1..Len(inflight) : inflight[k].net = "lost"

\* C9 as claimed: every round-trip that starts is followed by a state with
\* the busy flag clear, also when the call never answers.
C9_AlwaysBackToIdle == loading ~> ~loading

\* C9 amended: every round-trip that starts is followed by a state with the
\* busy flag clear, unless its scoring call never answers.
C9_BackToIdleUnlessLost == loading ~> (~loading \/ SomeCallLost)

\* C9 witness: a round-trip has ended and the busy flag is clear.
C9_Witness ==
    /\ trip.kind \in {"resolved", "rejected"}
    /\ ~loading
    /\ inflight = <<>>

\* C10: at most one scoring call is in flight.
C10_OneInFlight == Len(inflight) <= 1

\* C10 witness: a call is in flight and the form is mounted again after the
\* operator changed the threshold in the Settings view.
C10_Witness ==
    /\ Len(inflight) = 1
    /\ activeView = "Dashboard"
    /\ systemSettings.threshold # inflight[1].threshold

IsSuffix(old, new) ==
    /\ Len(old) <= Len(new)
    /\ SubSeq(new, Len(new) - Len(old) + 1, Len(new)) = old

\* C11: across every transition (scoring that succeeds or fails, settings
\* change, view change, chart computation) the previous ledger is a suffix of
\* the new ledger, element for element.
C11_LedgerAppendOnly == [][IsSuffix(transactions, transactions')]_vars

\* C11 witness: two different records are in the ledger, the charts have been
\* computed from it and the threshold has been moved since.
C11_Witness ==
    /\ Len(transactions) = 2
    /\ transactions[1] # transactions[2]
    /\ charts # NULL
    /\ systemSettings.threshold # DefaultThreshold

\* C12: no two records of the ledger have the same id.
C12_IdsUnique ==
    \A i, j \in 1..Len(transactions) :
        i # j => transactions[i].id # transactions[j].id

RECURSIVE Occurrences(_, _)
Occurrences(txs, decision) ==
    IF txs = <<>> THEN 0
    ELSE (IF Head(txs).decision = decision THEN 1 ELSE 0)
             + Occurrences(Tail(txs), decision)

RECURSIVE SumOfValues(_)
SumOfValues(entries) ==
    IF entries = <<>> THEN 0
    ELSE Head(entries).value + SumOfValues(Tail(entries))

DecisionNamed(name) ==
    CASE name = "Approve" -> "APPROVE"
      [] name = "Block" -> "BLOCK"
      [] name = "OTP" -> "OTP_VERIFICATION"

\* C13: the counts of the emitted distribution entries sum to the ledger
\* length, and each count is the number of records with that decision.
C13_DistributionCounts ==
    charts # NULL =>
        /\ SumOfValues(charts.pieData) = Len(transactions)
        /\ \A k \in 1..Len(charts.pieData) :
               charts.pieData[k].value =
                   Occurrences(transactions,
                               DecisionNamed(charts.pieData[k].name))

\* C13 witness: three scorings decided APPROVE, BLOCK, OTP_VERIFICATION in
\* that order give Approve:1, Block:1, OTP:1.
C13_Witness ==
    /\ Len(created) = 3
    /\ created[1].decision = "APPROVE"
    /\ created[2].decision = "BLOCK"
    /\ created[3].decision = "OTP_VERIFICATION"
    /\ charts # NULL
    /\ charts.pieData =
           <<[name |-> "Approve", value |-> 1], [name |-> "Block", value |-> 1],
             [name |-> "OTP", value |-> 1]>>

AtMost(n, window) == IF n <= window THEN n ELSE window

\* C14: over a ledger of length n the trend has min(10, n) elements and the
\* volume chart min(7, n); each is empty iff the ledger is empty, and the
\* empty ledger gives three empty views.
C14_WindowSizes ==
    charts # NULL =>
        /\ Len(charts.lineData) = AtMost(Len(transactions), 10)
        /\ Len(charts.barData) = AtMost(Len(transactions), 7)
        /\ charts.lineData = <<>> <=> transactions = <<>>
        /\ charts.barData = <<>> <=> transactions = <<>>
        /\ transactions = <<>> => charts.pieData = <<>>

\* C14 witness: a ledger longer than both windows has been charted.
C14_Witness ==
    /\ charts # NULL
    /\ Len(transactions) = 11
    /\ Len(charts.lineData) = 10
    /\ Len(charts.barData) = 7

\* C15: the trend is the reverse of the first min(10, n) records of the
\* newest-first ledger, each as its HH:MM label and its risk percent.
C15_TrendNewestTen ==
    charts # NULL =>
        LET m == AtMost(Len(transactions), 10)
        IN  /\ Len(charts.lineData) = m
            /\ \A k \in 1..m :
                   LET t == transactions[m - k + 1]
                   IN  charts.lineData[k] =
                           [name |-> <<t.time[1], t.time[2]>>,
                            risk |-> t.risk]

\* C15 witness: the trend of an eleven-record ledger ends with the newest
\* record and starts with the tenth newest, which differ, and leaves out an
\* oldest record that differs from the tenth newest.
C15_Witness ==
    /\ charts # NULL
    /\ Len(transactions) = 11
    /\ transactions[1].risk # transactions[10].risk
    /\ transactions[10].risk # transactions[11].risk
    /\ charts.lineData[10].risk = transactions[1].risk
    /\ charts.lineData[1].risk = transactions[10].risk

\* C16: the volume chart is the reverse of the first min(7, n) records of the
\* newest-first ledger, each as the number of its id and its amount; its
\* last element is the newest record.
C16_VolumeNewestSeven ==
    charts # NULL =>
        LET m == AtMost(Len(transactions), 7)
        IN  /\ Len(charts.barData) = m
            /\ \A k \in 1..m :
                   LET t == transactions[m - k + 1]
                   IN  charts.barData[k] =
                           [name |-> t.id[2], vol |-> t.amount]
            /\ m > 0 =>
                   charts.barData[m] =
                       [name |-> transactions[1].id[2],
                        vol |-> transactions[1].amount]

\* C16 witness: the volume chart of an eight-record ledger ends with the
\* newest record and leaves out the oldest, which differs from the newest
\* and from the seventh newest.
C16_Witness ==
    /\ charts # NULL
    /\ Len(transactions) = 8
    /\ transactions[1].id # transactions[8].id
    /\ transactions[7].id # transactions[8].id
    /\ charts.barData[7].name = transactions[1].id[2]
    /\ charts.barData[1].name = transactions[7].id[2]

NameRank(name) ==
    CASE name = "Approve" -> 1
      [] name = "Block" -> 2
      [] name = "OTP" -> 3

\* C17: a category is in the distribution iff some record has its decision,
\* no entry has value 0, and the entries are in the order Approve, Block, OTP.
C17_DistributionNonZero ==
    charts # NULL =>
        /\ \A name \in {"Approve", "Block", "OTP"} :
               (\E k \in 1..Len(charts.pieData) : charts.pieData[k].name = name)
                   <=> (\E j \in 1..Len(transactions) :
                            transactions[j].decision = DecisionNamed(name))
        /\ \A k \in 1..Len(charts.pieData) : charts.pieData[k].value > 0
        /\ \A i, j \in 1..Len(charts.pieData) :
               i < j => NameRank(charts.pieData[i].name)
                            < NameRank(charts.pieData[j].name)

\* C17 witness: a ledger without an APPROVE record is charted without the
\* Approve category, Block before OTP.
C17_Witness ==
    /\ charts # NULL
    /\ Len(transactions) = 3
    /\ charts.pieData =
           <<[name |-> "Block", value |-> 1], [name |-> "OTP", value |-> 2]>>

\* C18: a round-trip with the same probability and the same threshold as the
\* round-trip that gave the result on display gets the same final decision,
\* whatever the upstream suggestions and the autoBlock and strictMode flags
\* of the two are.
C18_DecisionIgnoresAdvice ==
    [][(/\ trip.kind = "pending"
        /\ trip'.kind = "resolved"
        /\ trip'.data # NULL
        /\ predictionResult # NULL
        /\ predictionResult.risk_score = trip'.data.risk_score
        /\ decidedUnder = trip'.thresholdAtSubmit)
           => predictionResult'.decision = predictionResult.decision]_vars

\* C18 witness: the second of two round-trips with equal threshold and equal
\* decision has been decided against the upstream suggestion, with both
\* flags away from their defaults.
C18_Witness ==
    /\ trip.kind = "resolved"
    /\ trip.data # NULL
    /\ Len(transactions) = 2
    /\ transactions[1].risk = transactions[2].risk
    /\ transactions[1].decision = transactions[2].decision
    /\ decidedUnder = trip.thresholdAtSubmit
    /\ trip.data.decision # predictionResult.decision
    /\ systemSettings.strictMode
    /\ ~systemSettings.autoBlock

\* C19: computing the charts leaves the ledger as it was, and computing them
\* again from the same ledger gives the same charts.
C19_ChartsLeaveLedger ==
    [][/\ transactions' = transactions
       /\ (charts # NULL /\ charts' # NULL) => charts' = charts]_vars

\* C19 witness: the charts have been computed anew in the Risk Monitor view
\* from a ledger that a reversal would change, and the ledger is still the
\* creation history newest first.
C19_Witness ==
    /\ activeView = "Risk Monitor"
    /\ charts # NULL
    /\ Len(transactions) >= 2
    /\ transactions # Reverse(transactions)
    /\ transactions = Reverse(created)

\* C20: whenever the charts are shown they are the charts of the current
\* ledger, and they are shown exactly in the two views that hold them.
C20_ChartsOfCurrentLedger ==
    /\ charts # NULL <=> activeView \in ChartViews
    /\ charts # NULL => charts = ComputeCharts(transactions).charts

\* C20 witness: a second record was appended while the Dashboard charts held
\* the value computed from the one-record ledger, and the charts show both.
C20_Witness ==
    /\ activeView = "Dashboard"
    /\ trip.kind = "resolved"
    /\ Len(transactions) = 2
    /\ trip.before = Tail(transactions)
    /\ charts # NULL
    /\ Len(charts.lineData) = 2

\* A step of a scoring round-trip: its start, its success or its failure.
RoundTripStep ==
    \/ loading' # loading
    \/ inflight' # inflight
    \/ notifications' # notifications
    \/ trip' # trip
    \/ transactions' # transactions

\* C21: the settings start at threshold 0.3, autoBlock on, strictMode off;
\* no step of a round-trip changes them, and every step that changes them is
\* taken in the Settings view.
C21_SettingsOnlyByOperator ==
    /\ systemSettings.threshold = 300
    /\ systemSettings.autoBlock
    /\ ~systemSettings.strictMode
    /\ [][/\ RoundTripStep => systemSettings' = systemSettings
          /\ systemSettings' # systemSettings
                 => activeView = "Settings" /\ activeView' = "Settings"]_vars

\* C21 witness: with all three settings away from their defaults one
\* round-trip has succeeded and a later one has failed.
C21_Witness ==
    /\ trip.kind = "rejected"
    /\ transactions # <<>>
    /\ systemSettings.threshold # 300
    /\ ~systemSettings.autoBlock
    /\ systemSettings.strictMode

\* C22: every ledger record's risk percent is an integer from 0 to 100, and
\* the newest record's is the rounded percentage of the probability of the
\* reply that created it.
C22_RiskPercentInRange ==
    /\ \A k \in 1..Len(transactions) :
           /\ IsNum(transactions[k].risk)
           /\ transactions[k].risk.num \in 0..100
    /\ (trip.kind = "resolved" /\ trip.data # NULL) =>
           /\ IsNum(trip.data.risk_score)
           /\ transactions[1].risk.num = (trip.data.risk_score.num + 5) \div 10

\* C23: the busy flag is set exactly while a scoring call is in flight.
C23_BusyWhileInFlight == loading <=> inflight # <<>>

\* C23 witness: after a completed round-trip a second call is in flight with
\* the flag set, while the operator is in another view.
C23_Witness ==
    /\ loading
    /\ Len(inflight) = 1
    /\ transactions # <<>>
    /\ activeView # "Dashboard"

\* The toasts of one round-trip, in order: the progress toast, replaced by
\* the success or by the failure toast, and at most one severity toast after
\* the success toast.
ToastProtocol ==
    notifications \in
        {<<>>, <<"progress">>, <<"progress", "failure">>,
         <<"progress", "success">>, <<"progress", "success", "blocked">>,
         <<"progress", "success", "verificationRequired">>}

ToastResolved == Emitted("success") # Emitted("failure")

\* C24 as claimed: the toasts of a round-trip follow the protocol, and the
\* progress toast is always followed by exactly one of success and failure,
\* also when the call never answers.
C24_ProgressAlwaysResolved ==
    /\ []ToastProtocol
    /\ (notifications = <<"progress">>) ~> ToastResolved

\* C24 amended: the toasts of a round-trip follow the protocol, and the
\* progress toast is followed by exactly one of success and failure unless
\* the scoring call never answers.
C24_ProgressResolvedUnlessLost ==
    /\ []ToastProtocol
    /\ (notifications = <<"progress">>) ~> (ToastResolved \/ SomeCallLost)

\* C24 witness: a round-trip has ended with the success toast followed by
\* the blocked toast.
C24_Witness ==
    /\ trip.kind = "resolved"
    /\ ~loading
    /\ notifications = <<"progress", "success", "blocked">>

\* C25: the threshold is always from 0.10 to 0.90, so strictly between 0
\* and 1.
C25_ThresholdInRange ==
    /\ systemSettings.threshold >= 100
    /\ systemSettings.threshold <= 900
    /\ systemSettings.threshold > 0
    /\ systemSettings.threshold < 1000

\* C25 witness: the slider is at its lowest position after it was at its
\* highest, under which a round-trip was submitted.
C25_Witness ==
    /\ systemSettings.threshold = 100
    /\ trip.kind = "resolved"
    /\ trip.thresholdAtSubmit = 900

\* C26 as claimed: while the threshold in force is 0.7 or above, no record
\* with decision OTP_VERIFICATION is added to the ledger.
C26_NoOtpWhileInForce ==
    [][(/\ Len(transactions') > Len(transactions)
        /\ systemSettings.threshold >= 700)
           => transactions'[1].decision # "OTP_VERIFICATION"]_vars

\* C26 amended: a round-trip submitted while the threshold was 0.7 or above
\* adds no record with decision OTP_VERIFICATION.
C26_NoOtpWhenSubmittedAbove ==
    [][(/\ Len(transactions') > Len(transactions)
        /\ trip.thresholdAtSubmit >= 700)
           => transactions'[1].decision # "OTP_VERIFICATION"]_vars

\* C26 witness: a probability between 0.3 and 0.7 submitted under the
\* threshold 0.9 was approved.
C26_Witness ==
    /\ trip.kind = "resolved"
    /\ trip.thresholdAtSubmit = 900
    /\ trip.data # NULL
    /\ trip.data.risk_score = Num(450)
    /\ transactions[1].decision = "APPROVE"

\* The result on display and the gauge agree with the newest record.
DisplayInStep ==
    /\ predictionResult = NULL <=> transactions = <<>>
    /\ predictionResult # NULL =>
           /\ predictionResult.decision = transactions[1].decision
           /\ RiskPercent(riskScore) = transactions[1].risk

\* C27: the result on display is null iff the ledger is empty; otherwise its
\* decision is the newest record's and the gauge score rounded is the newest
\* record's risk percent; a round-trip that fails changes neither.
C27_DisplayFollowsLedgerHead ==
    /\ []DisplayInStep
    /\ [][Emitted("failure")' /\ ~Emitted("failure")
              => /\ predictionResult' = predictionResult
                 /\ riskScore' = riskScore]_vars

\* C27 witness: a round-trip failed after one had been blocked at 70 percent,
\* and the display still shows that one.
C27_Witness ==
    /\ trip.kind = "rejected"
    /\ Len(transactions) = 1
    /\ transactions[1].risk = Num(70)
    /\ predictionResult # NULL
    /\ predictionResult.decision = "BLOCK"
    /\ riskScore = Num(704)

\* C28: once a transaction has been scored, the gauge's label is SAFE iff the
\* final decision is APPROVE, OTP REQUIRED iff it is OTP_VERIFICATION and
\* BLOCK iff it is BLOCK.
C28_GaugeLabelAgrees ==
    predictionResult # NULL =>
        /\ GetStatusText(riskScore) = "SAFE"
               <=> predictionResult.decision = "APPROVE"
        /\ GetStatusText(riskScore) = "OTP REQUIRED"
               <=> predictionResult.decision = "OTP_VERIFICATION"
        /\ GetStatusText(riskScore) = "BLOCK"
               <=> predictionResult.decision = "BLOCK"

LoginToasted(kind) ==
    /\ login.toasts # <<>>
    /\ login.toasts[Len(login.toasts)][1] = kind

\* C29: the admin_token is written and the console is navigated to only by
\* a login call that succeeded; a login call that fails leaves the token and
\* the page as they were and shows an error toast; either way the loading
\* flag set at submit is cleared.
C29_TokenOnlyOnSuccess ==
    [][/\ (login'.adminToken # login.adminToken
              \/ login'.mounted # login.mounted)
           => /\ login.outcome = "pending"
              /\ login'.outcome = "resolved"
              /\ LoginToasted("success")'
       /\ (login.outcome = "pending" /\ login'.outcome = "rejected")
           => /\ login'.adminToken = login.adminToken
              /\ login'.mounted = login.mounted
              /\ LoginToasted("error")'
       /\ (login.outcome = "pending" /\ login'.outcome # "pending")
           => login.loading /\ ~login'.loading]_vars

\* C29 witness: a login was rejected with a detail over the token of an
\* earlier session, which is still stored, and the page is idle again.
C29_Witness ==
    /\ login.outcome = "rejected"
    /\ login.adminToken = Str("tok-0")
    /\ login.mounted
    /\ ~login.loading
    /\ login.toasts = <<<<"error", Str("Account disabled")>>>>

====
